---- MODULE Spec2Model ----
(***************************************************************************)
(* A model of the CCS811 air quality sensor driver (src/CCS811.py).        *)
(*                                                                         *)
(* The state is the private fields of one CCS811 object, the GPIO and      *)
(* device resources the object acts on, and a record of the operation      *)
(* that ran last: its name, what it returned or raised, and the bus and    *)
(* pin events it issued, in order.  The constructor is modelled step by    *)
(* step (pc), because interrupts arrive while it runs; waitforData is one  *)
(* action per turn of its loop; every other method is one action.  The     *)
(* callback readData is one action too, and in SpecRace one action per     *)
(* statement, interleaved with the calls of the program.  The bus, the     *)
(* pins and the providers are inputs: each transaction picks its outcome   *)
(* with \E.                                                                *)
(*                                                                         *)
(* A bus transaction that fails raises OSError, the exception dataReady    *)
(* retries on (src/CCS811.py:589); a pin that cannot be acquired raises    *)
(* GPIOError.  Writing the level of an acquired pin does not fail.         *)
(***************************************************************************)
EXTENDS Integers, Sequences, FiniteSets, TLC

\* ------------------------------------------------------------ constants

MEAS_INT_IDLE == 0
MEAS_INT_1 == 1
MEAS_INT_250MS == 4
ADDR_LOW == 90
ADDR_HIGH == 91
ATTEMPTS == 5
POLL_MODE == 0
INTERRUPT_MODE == 1
HW_ID == 129
APP_VALID_BIT == 4
DATA_READY_BIT == 3
ERROR_BIT == 0
DRIVE_MODE_BIT == 4
INT_DATARDY_BIT == 3
MIN_CO2 == 400
ALL_BITS == 255

\* the value of a field that holds Python's None (measurements are >= 0)
None == -1

\* ------------------------------------------------------------ bounds

\* longest block the bus hands back for a 4 byte block read
MaxBlockLen == 4

\* ------------------------------------------------------------ inputs

\* status register values: nothing, error, app valid, app valid and data ready
StatusVals == {0, 1, 16, 24}
\* error id register values
ErrorIdVals == {0, 4}
\* every value of the 8 bit error id register
ErrorIdAll == 0 .. ALL_BITS
\* hardware id register values
HwIdVals == {HW_ID, 0}
\* bus addresses offered to the constructor
AddrVals == {ADDR_LOW - 1, ADDR_LOW, ADDR_HIGH, ADDR_HIGH + 1}
\* measurement intervals offered to the constructor
IntervalVals == (MEAS_INT_IDLE - 1) .. (MEAS_INT_250MS + 1)
\* the arguments of a constructor call; interruptPin and wakeupPin say
\* whether a pin number is passed, tempDevice and humidDevice whether a
\* provider is
AllArgs ==
    [i2cAddress : AddrVals, measInterval : IntervalVals,
     interruptPin : BOOLEAN, wakeupPin : BOOLEAN,
     tempDevice : BOOLEAN, humidDevice : BOOLEAN]
\* calls that leave the address and the interval at their defaults
DefaultArgs ==
    {a \in AllArgs : a.i2cAddress = ADDR_HIGH /\ a.measInterval = MEAS_INT_1}
\* default calls with both providers or none
PollArgs == {a \in DefaultArgs : a.tempDevice = a.humidDevice}
\* calls with any interval and any pins, without providers
PinArgs ==
    {a \in AllArgs : /\ a.i2cAddress = ADDR_LOW
                     /\ ~a.tempDevice /\ ~a.humidDevice}
\* default calls without providers
PlainArgs == {a \in PollArgs : ~a.tempDevice}
\* default calls of a program that polls, without interrupt pin and
\* providers
WaitArgs == {a \in PlainArgs : ~a.interruptPin}
\* default calls of a program that runs in interrupt mode, without
\* providers
IrqArgs == {a \in PlainArgs : a.interruptPin}
\* what a bus transaction does: it completes or it raises OSError
BusOutcomes == {"ok", "OSError"}

\* what the device may send for the result register: 400 ppm and 100 ppb,
\* 399 ppm, 36865 ppm and 399 ppb, each followed by further bytes
Samples == {<<1, 144, 0, 100, 0, 0>>, <<1, 143, 255, 255, 0, 0>>,
            <<144, 1, 1, 143, 0, 0>>}

\* the blocks readBlockReg can hand back: a sample, or its first bytes only
Blocks == {SubSeq(b, 1, n) : b \in Samples, n \in 0 .. MaxBlockLen}

\* a block read that raises OSError hands back no block
NoBlock == <<None>>
BlockReads == Blocks \cup {NoBlock}

\* ------------------------------------------------------------ helpers

Bit(x, b) == (x \div (2 ^ b)) % 2

\* one bus or pin event of an operation: val is the bytes written, or the
\* bytes a read of the status or the result register handed to dataReady or
\* readData
Ev(op, ok, val) == [op |-> op, ok |-> ok, val |-> val]

RESET_MAGIC == <<17, 229, 114, 138>>

\* ------------------------------------------------------------ state

VARIABLES
    pc,            \* position of the constructor, "ready" once it returned
    args,          \* the arguments the constructor was called with
    i2cAddress, measInterval, mode, tempDevice, humidDevice, attempts,
    stopped, tVOC, CO2, staleCO2, staletVOC, open, errorCode,
    interruptPin, wakeupPin,   \* "unset", "None" or "pin"
    intAcquired, wakeAcquired, \* the GPIO pins are held
    wakeLevel,                 \* level driven on the wakeup pin
    modeReg,                   \* last value written to the mode register
    earlyIsr,                  \* a callback ran before the constructor ended
    lastOp, ret, retVal, log,  \* the operation that ran last
    floatArg,                  \* the argument of a call of __toCCSfloat
    isrPc,                     \* the statement a running callback is at
    isrData                    \* the block a running callback has read

cfgVars == <<i2cAddress, measInterval, mode, tempDevice, humidDevice,
             attempts>>
measVars == <<tVOC, CO2, staleCO2, staletVOC>>
pinVars == <<interruptPin, wakeupPin, intAcquired, wakeAcquired, wakeLevel>>
opVars == <<lastOp, ret, retVal, log>>
isrVars == <<isrPc, isrData>>
vars == <<pc, args, cfgVars, stopped, measVars, open, errorCode, pinVars,
          modeReg, earlyIsr, opVars, floatArg, isrVars>>

Init ==
    /\ pc = "new"
    /\ args = [i2cAddress |-> None, measInterval |-> None,
               interruptPin |-> FALSE, wakeupPin |-> FALSE,
               tempDevice |-> FALSE, humidDevice |-> FALSE]
    /\ i2cAddress = None /\ measInterval = None /\ mode = None
    /\ tempDevice = FALSE /\ humidDevice = FALSE /\ attempts = None
    /\ stopped = TRUE /\ tVOC = None /\ CO2 = None
    /\ staleCO2 = TRUE /\ staletVOC = TRUE
    /\ open = FALSE /\ errorCode = 0
    /\ interruptPin = "unset" /\ wakeupPin = "unset"
    /\ intAcquired = FALSE /\ wakeAcquired = FALSE /\ wakeLevel = "low"
    /\ modeReg = None
    /\ earlyIsr = FALSE
    /\ lastOp = "none" /\ ret = "none" /\ retVal = None /\ log = <<>>
    /\ floatArg = 0
    /\ isrPc = "idle" /\ isrData = <<>>


\* ------------------------------------------------------------ pure code

\* the mode byte with the two fields in each other's place
ModeRegValueSwapped(m, interval) ==
    interval * (2 ^ INT_DATARDY_BIT) + m * (2 ^ DRIVE_MODE_BIT)

\* the byte __setModeReg writes
ModeRegValue(m, interval) ==
    interval * (2 ^ DRIVE_MODE_BIT) + m * (2 ^ INT_DATARDY_BIT)

\* reals are integers in units of 1/Scale: 1/512 and 0.001 are both exact
Scale == 512 * 1000
CCS_MAX == 127999 * 512
KELVIN_0C == 273150 * 512
OFFSET_25 == 25 * Scale

RECURSIVE FracBitsShort(_, _, _)
\* the loop of __toCCSfloat ending after 8 iterations
FracBitsShort(fraction, i, bits) ==
    IF i > 8 THEN bits
    ELSE LET binFrac == Scale \div (2 ^ i) IN
         IF fraction >= binFrac
         THEN FracBitsShort(fraction - binFrac, i + 1, bits + 2 ^ (9 - i))
         ELSE FracBitsShort(fraction, i + 1, bits)

RECURSIVE FracBits(_, _, _)
\* the loop of __toCCSfloat from iteration i on
FracBits(fraction, i, bits) ==
    IF i > 9 THEN bits
    ELSE LET binFrac == Scale \div (2 ^ i) IN
         IF fraction >= binFrac
         THEN FracBits(fraction - binFrac, i + 1, bits + 2 ^ (9 - i))
         ELSE FracBits(fraction, i + 1, bits)

Max(a, b) == IF a >= b THEN a ELSE b
Min(a, b) == IF a <= b THEN a ELSE b

\* __toCCSfloat without the fraction bit it puts in the high byte
toCCSfloatNoCarry(number) ==
    LET num == Max(0, Min(number, CCS_MAX))
        inum == num \div Scale
        fraction == num - inum * Scale
        bits == FracBits(fraction, 1, 0)
    IN  <<inum * 2, bits % 256>>

\* __toCCSfloat without the clipping of line 453
toCCSfloatNoClamp(number) ==
    LET inum == number \div Scale
        fraction == number - inum * Scale
        bits == FracBits(fraction, 1, 0)
    IN  <<inum * 2 + bits \div 256, bits % 256>>

\* __toCCSfloat, lines 453-466
toCCSfloat(number) ==
    LET num == Max(0, Min(number, CCS_MAX))
        inum == num \div Scale
        fraction == num - inum * Scale
        bits == FracBits(fraction, 1, 0)
        floatHigh == inum * 2 + bits \div 256
        floatLow == bits % 256
    IN  <<floatHigh, floatLow>>

ENV_DEFAULT == <<100, 0>>

\* provider readings, in units of 1/Scale: 298.15 K with 50 %, 300 K with
\* 150 %
EnvSamples == {[kelvin |-> 298150 * 512, humid |-> 50 * Scale],
               [kelvin |-> 300000 * 512, humid |-> 150 * Scale]}

\* the numbers handed to a call of __toCCSfloat, in units of 1/Scale: every
\* multiple of 1/512 from 0 to 128, numbers just above and just below a
\* multiple, and numbers outside the interval the method clips to
FloatSteps == 0 .. (CCS_MAX \div 1000) + 1
FloatArgsAt(k) == {k * 1000 + r : r \in {0, 1, 999}}
FloatArgsOutside ==
    {-200 * Scale, -Scale, -1, CCS_MAX, CCS_MAX + 1, 200 * Scale}

\* the end of close() without the assignment that marks the handle not open
CloseResetStaysOpen(isOpen, resetOk) ==
    [open |-> isOpen,
     events |-> IF isOpen THEN <<Ev("write.reset", resetOk, RESET_MAGIC)>>
                ELSE <<>>]

\* the end of close() without the reset
CloseResetNever(isOpen, resetOk) == [open |-> FALSE, events |-> <<>>]

\* the end of close(), lines 408-413: an open handle is reset, a failure of
\* the reset is ignored, and the handle is not open any more
CloseReset(isOpen, resetOk) ==
    [open |-> FALSE,
     events |-> IF isOpen THEN <<Ev("write.reset", resetOk, RESET_MAGIC)>>
                ELSE <<>>]

\* close(): ip and wp are the two pin fields, isOpen the open flag, resetOk
\* whether the bus takes the reset.  A field that was never assigned raises
\* AttributeError where close() reads it.
do_close(ip, wp, isOpen, resetOk) ==
    LET evInt == IF ip = "pin" THEN <<Ev("intPin.close", TRUE, <<>>)>> ELSE <<>>
        evWake == IF wp = "pin" THEN <<Ev("wakePin.close", TRUE, <<>>)>>
                  ELSE <<>>
        rst == CloseReset(isOpen, resetOk)
    IN  IF ip = "unset"
        THEN [exc |-> "AttributeError", interruptPin |-> ip, wakeupPin |-> wp,
              open |-> isOpen, closedInt |-> FALSE, closedWake |-> FALSE,
              events |-> <<>>]
        ELSE IF wp = "unset"
        THEN [exc |-> "AttributeError", interruptPin |-> "None",
              wakeupPin |-> wp, open |-> isOpen, closedInt |-> ip = "pin",
              closedWake |-> FALSE, events |-> evInt]
        ELSE [exc |-> "none", interruptPin |-> "None", wakeupPin |-> "None",
              open |-> rst.open, closedInt |-> ip = "pin",
              closedWake |-> wp = "pin",
              events |-> evInt \o evWake \o rst.events]

\* the except clause with the stored error code left as it was
ReadFailedNoCode(evs) ==
    [ret |-> TRUE, errorCode |-> errorCode, events |-> evs]

\* the except clause of errorCondition, lines 521-524: a read that raised
\* sets the bit "could not read error registers"
ReadFailed(evs) ==
    [ret |-> TRUE, errorCode |-> 2 ^ 6, events |-> evs]

\* an error id of 0 stored as the bit "could not read error registers"
ErrorIdCodeBit6(eid) == IF eid = 0 THEN 2 ^ 6 ELSE eid

\* the error id stored as it was read
ErrorIdCodeRaw(eid) == eid

\* lines 515-519: the error code stored for the error id read; an error id
\* of 0 with the error bit set is stored as bit 7
ErrorIdCode(eid) == IF eid = 0 THEN 2 ^ 7 ELSE eid

\* errorCondition: the status read and the error id read each complete (with
\* st, eid) or raise
do_errorCondition(stOut, st, eidOut, eid) ==
    IF stOut # "ok"
    THEN ReadFailed(<<Ev("read.status", FALSE, <<>>)>>)
    ELSE IF Bit(st, ERROR_BIT) = 0
    THEN [ret |-> FALSE, errorCode |-> 0,
          events |-> <<Ev("read.status", TRUE, <<st>>)>>]
    ELSE IF eidOut # "ok"
    THEN ReadFailed(<<Ev("read.status", TRUE, <<st>>),
                      Ev("read.errid", FALSE, <<>>)>>)
    ELSE [ret |-> TRUE, errorCode |-> ErrorIdCode(eid),
          events |-> <<Ev("read.status", TRUE, <<st>>),
                       Ev("read.errid", TRUE, <<eid>>)>>]

\* the fixed cause strings of errorText, lines 479-495, by bit
CauseTexts ==
    <<"Write request to wrong register received",
      "Read request for wrong register received",
      "Invalid MeasMode received",
      "Sensor resistance reached max resistance",
      "Heater Current is not in range",
      "Heater supply voltage is not applied correctly",
      "Could not read error registers",
      "Unspecified error">>

ALL_BITS_TEXT == "All error code bits set"

RECURSIVE Causes(_, _)
\* the message errorText builds from bit b on: a text is a sequence whose
\* elements are a cause string or one character of the separator ", "
Causes(code, b) ==
    IF b > 7 THEN <<>>
    ELSE (IF Bit(code, b) = 1 THEN <<CauseTexts[b + 1], ",", " ">> ELSE <<>>)
         \o Causes(code, b + 1)

\* the message returned whole
StripNone(message) == message

\* line 497: message[:-2]
Strip(message) == SubSeq(message, 1, Len(message) - 2)

\* errorText for the stored error code, lines 476-497
do_errorText(code) ==
    IF code = ALL_BITS THEN <<ALL_BITS_TEXT>> ELSE Strip(Causes(code, 0))


\* the validity test with 400 ppm taken as invalid
InvalidCO2Incl(co2) == co2 <= MIN_CO2

\* line 644: a CO2 value below 400 ppm marks an invalid measurement
InvalidCO2(co2) == co2 < MIN_CO2

\* the try block of readData (lines 642-653): what it has assigned when it
\* ends or when an index is out of range
TryInterpret(data) ==
    LET n == Len(data)
        co2 == data[1] * 256 + data[2]
        keep == [raised |-> TRUE, CO2 |-> CO2, tVOC |-> tVOC,
                 staleCO2 |-> staleCO2, staletVOC |-> staletVOC]
    IN  IF n < 2 THEN keep
        ELSE IF InvalidCO2(co2)
        THEN [raised |-> FALSE, CO2 |-> None, tVOC |-> None,
              staleCO2 |-> TRUE, staletVOC |-> TRUE]
        ELSE IF n < 4 THEN [keep EXCEPT !.CO2 = co2]
        ELSE [raised |-> FALSE, CO2 |-> co2,
              tVOC |-> data[3] * 256 + data[4],
              staleCO2 |-> FALSE, staletVOC |-> FALSE]

\* the try block without a handler: IndexError leaves readData
InterpretNoHandler(data) ==
    LET t == TryInterpret(data) IN
    [exc |-> IF t.raised THEN "IndexError" ELSE "none", CO2 |-> t.CO2,
     tVOC |-> t.tVOC, staleCO2 |-> t.staleCO2, staletVOC |-> t.staletVOC]

\* the try block with a handler that keeps what the block has assigned
InterpretPartial(data) ==
    LET t == TryInterpret(data) IN
    [exc |-> "none", CO2 |-> t.CO2, tVOC |-> t.tVOC,
     staleCO2 |-> t.staleCO2, staletVOC |-> t.staletVOC]

\* the try block with a handler that sets both values to None and leaves
\* the staleness flags as they are
InterpretHandlerNoFlags(data) ==
    LET t == TryInterpret(data) IN
    IF t.raised
    THEN [exc |-> "none", CO2 |-> None, tVOC |-> None,
          staleCO2 |-> t.staleCO2, staletVOC |-> t.staletVOC]
    ELSE [exc |-> "none", CO2 |-> t.CO2, tVOC |-> t.tVOC,
          staleCO2 |-> t.staleCO2, staletVOC |-> t.staletVOC]

\* the try block with its IndexError handler (lines 642-659)
Interpret(data) ==
    LET t == TryInterpret(data) IN
    IF t.raised
    THEN [exc |-> "none", CO2 |-> None, tVOC |-> None,
          staleCO2 |-> TRUE, staletVOC |-> TRUE]
    ELSE [exc |-> "none", CO2 |-> t.CO2, tVOC |-> t.tVOC,
          staleCO2 |-> t.staleCO2, staletVOC |-> t.staletVOC]

\* the environmental data without the bytes that stand for a provider that
\* is not configured
EnvListNoDefault(kelvin, humid) ==
    (IF tempDevice THEN toCCSfloat(kelvin - KELVIN_0C + OFFSET_25)
     ELSE <<>>)
    \o (IF humidDevice THEN toCCSfloat(humid) ELSE <<>>)

\* the environmental data readData writes (lines 663-675)
EnvList(kelvin, humid) ==
    (IF tempDevice THEN toCCSfloat(kelvin - KELVIN_0C + OFFSET_25)
     ELSE ENV_DEFAULT)
    \o (IF humidDevice THEN toCCSfloat(humid) ELSE ENV_DEFAULT)

\* what the providers read and what the environmental data write does; a
\* provider that is not configured is not read, and without any provider
\* nothing is written
NoEnv == [kelvin |-> 0, humid |-> 0, out |-> "ok"]
EnvIn ==
    IF tempDevice \/ humidDevice
    THEN {[kelvin |-> e.kelvin, humid |-> e.humid, out |-> o] :
              e \in EnvSamples, o \in BusOutcomes}
    ELSE {NoEnv}

\* readData without its test of the stopped flag
IsDrainNever == FALSE

\* readData testing the stopped flag in poll mode only
IsDrainInPollMode == stopped /\ mode = POLL_MODE

\* lines 635-639: a read on a stopped handle only releases the interrupt line
IsDrain == stopped

\* a block read that raises caught inside readData, which then marks the
\* measurements absent
BlockReadRaisedCaught(keep) ==
    [meas |-> [exc |-> "none", CO2 |-> None, tVOC |-> None,
               staleCO2 |-> TRUE, staletVOC |-> TRUE],
     events |-> <<Ev("read.block", FALSE, <<>>)>>]

\* lines 631-633: the block read is outside the try block of readData, so
\* an OSError of the bus leaves readData before any field is assigned
BlockReadRaised(keep) ==
    [meas |-> [keep EXCEPT !.exc = "OSError"],
     events |-> <<Ev("read.block", FALSE, <<>>)>>]

\* readData: the block read hands back data or raises (NoBlock), the
\* providers read env.kelvin and env.humid, the environmental data write
\* completes or raises (env.out)
do_readData(data, env) ==
    LET keep == [exc |-> "none", CO2 |-> CO2, tVOC |-> tVOC,
                 staleCO2 |-> staleCO2, staletVOC |-> staletVOC]
        m == Interpret(data)
    IN  IF data = NoBlock
        THEN BlockReadRaised(keep)
        ELSE IF IsDrain
        THEN [meas |-> keep, events |-> <<Ev("read.block", TRUE, data)>>]
        ELSE IF m.exc # "none"
        THEN [meas |-> m, events |-> <<Ev("read.block", TRUE, data)>>]
        ELSE IF tempDevice \/ humidDevice
        THEN [meas |-> [m EXCEPT !.exc = IF env.out = "ok" THEN "none"
                                         ELSE env.out],
              events |-> <<Ev("read.block", TRUE, data),
                           Ev("write.env", env.out = "ok",
                              EnvList(env.kelvin, env.humid))>>]
        ELSE [meas |-> m, events |-> <<Ev("read.block", TRUE, data)>>]

\* ------------------------------------------------------------ constructor

\* the except clause of the constructor (lines 302-304): close(), then the
\* error is raised again, unless close() itself raised
CtorCleanup(exc, ip, wp, isOpen, resetOk, evs) ==
    \E c \in {do_close(ip, wp, isOpen, resetOk)} :
    /\ interruptPin' = c.interruptPin
    /\ wakeupPin' = c.wakeupPin
    /\ open' = c.open
    /\ intAcquired' = (intAcquired /\ ~c.closedInt)
    /\ wakeAcquired' = (wakeAcquired /\ ~c.closedWake)
    /\ log' = log \o evs \o c.events
    /\ ret' = IF c.exc # "none" THEN c.exc ELSE exc
    /\ pc' = "failed"

\* an exception the except clause does not catch leaves the constructor
CtorUncaught(exc, evs) ==
    /\ log' = log \o evs
    /\ ret' = exc
    /\ pc' = "failed"
    /\ UNCHANGED <<interruptPin, wakeupPin, open, intAcquired, wakeAcquired>>

\* the argument check without its address test
ArgsValidAnyAddr(addr, interval) ==
    ~(interval < MEAS_INT_1 \/ interval > MEAS_INT_250MS)

\* the argument check with the idle interval as lowest legal interval
ArgsValidIdle(addr, interval) ==
    /\ ~(addr # ADDR_LOW /\ addr # ADDR_HIGH)
    /\ ~(interval < MEAS_INT_IDLE \/ interval > MEAS_INT_250MS)

\* the argument check of the constructor, lines 208-211
ArgsValid(addr, interval) ==
    /\ ~(addr # ADDR_LOW /\ addr # ADDR_HIGH)
    /\ ~(interval < MEAS_INT_1 \/ interval > MEAS_INT_250MS)

\* the stopped flag declared as running
InitialStoppedRunning == FALSE

\* line 228: the handle is stopped until the constructor ends
InitialStopped == TRUE

\* lines 207-238: the arguments are checked, the fields are declared; args
\* are the arguments of the call, drawn from argSet
CtorBeginWith(argSet) ==
    /\ pc = "new"
    /\ \E a \in argSet :
        /\ lastOp' = "init" /\ log' = <<>> /\ retVal' = None
        /\ args' = a
        /\ IF ~ArgsValid(a.i2cAddress, a.measInterval)
           THEN /\ ret' = "ValueError" /\ pc' = "failed"
                /\ UNCHANGED <<cfgVars, stopped, measVars, open, errorCode>>
           ELSE /\ i2cAddress' = a.i2cAddress
                /\ measInterval' = a.measInterval
                /\ tempDevice' = a.tempDevice
                /\ humidDevice' = a.humidDevice
                /\ attempts' = ATTEMPTS
                /\ mode' = IF a.interruptPin THEN INTERRUPT_MODE
                           ELSE POLL_MODE
                /\ stopped' = InitialStopped /\ tVOC' = None /\ CO2' = None
                /\ staleCO2' = TRUE /\ staletVOC' = TRUE
                /\ open' = FALSE /\ errorCode' = 0
                /\ ret' = "none" /\ pc' = "interruptPin"
    /\ UNCHANGED <<pinVars, modeReg, earlyIsr>>
    /\ UNCHANGED <<floatArg, isrVars>>

\* the constructor called with any arguments
ctorBegin == CtorBeginWith(AllArgs)

\* the constructor called with the default address and interval
ctorBeginDefault == CtorBeginWith(DefaultArgs)

\* the constructor called by a program that polls
ctorBeginPoll == CtorBeginWith(PollArgs)

\* the constructor called by a program that uses the power states
ctorBeginPins == CtorBeginWith(PinArgs)

\* the constructor called by a program that inspects the error condition
ctorBeginPlain == CtorBeginWith(PlainArgs)

\* the constructor called by a program that waits for data
ctorBeginWait == CtorBeginWith(WaitArgs)

\* the constructor called by a program that runs in interrupt mode
ctorBeginIrq == CtorBeginWith(IrqArgs)

\* lines 242-248: the interrupt pin is acquired, with readData as callback
ctorInterruptPin ==
    /\ pc = "interruptPin"
    /\ IF args.interruptPin
       THEN \E ok \in BOOLEAN :
            IF ok
            THEN /\ interruptPin' = "pin" /\ intAcquired' = TRUE
                 /\ log' = Append(log, Ev("intPin.open", TRUE, <<>>))
                 /\ pc' = "wakeupPin"
                 /\ UNCHANGED <<wakeupPin, wakeAcquired, open, ret>>
            ELSE CtorCleanup("GPIOError", interruptPin, wakeupPin, open, TRUE,
                             <<Ev("intPin.open", FALSE, <<>>)>>)
       ELSE /\ interruptPin' = "None" /\ pc' = "wakeupPin"
            /\ UNCHANGED <<wakeupPin, intAcquired, wakeAcquired, open, ret,
                           log>>
    /\ UNCHANGED <<args, cfgVars, stopped, measVars, errorCode, wakeLevel,
                   modeReg, earlyIsr, lastOp, retVal>>
    /\ UNCHANGED <<floatArg, isrVars>>

\* lines 250-255: the wakeup pin is acquired and driven low
ctorWakeupPin ==
    /\ pc = "wakeupPin"
    /\ IF args.wakeupPin
       THEN \E ok \in BOOLEAN :
            IF ok
            THEN /\ wakeupPin' = "pin" /\ wakeAcquired' = TRUE
                 /\ wakeLevel' = "low"
                 /\ log' = log \o <<Ev("wakePin.open", TRUE, <<>>),
                                    Ev("wakePin.low", TRUE, <<>>)>>
                 /\ pc' = "reset"
                 /\ UNCHANGED <<interruptPin, intAcquired, open, ret>>
            ELSE /\ CtorCleanup("GPIOError", interruptPin, wakeupPin, open,
                                TRUE, <<Ev("wakePin.open", FALSE, <<>>)>>)
                 /\ UNCHANGED wakeLevel
       ELSE /\ wakeupPin' = "None" /\ pc' = "reset"
            /\ UNCHANGED <<interruptPin, intAcquired, wakeAcquired, wakeLevel,
                           open, ret, log>>
    /\ UNCHANGED <<args, cfgVars, stopped, measVars, errorCode, modeReg,
                   earlyIsr, lastOp, retVal>>
    /\ UNCHANGED <<floatArg, isrVars>>

\* lines 259-263: software reset, a failure is ignored
ctorReset ==
    /\ pc = "reset"
    /\ \E out \in BusOutcomes :
        log' = Append(log, Ev("write.reset", out = "ok", RESET_MAGIC))
    /\ pc' = "hwId"
    /\ UNCHANGED <<args, cfgVars, stopped, measVars, open, errorCode, pinVars,
                   modeReg, earlyIsr, lastOp, ret, retVal>>
    /\ UNCHANGED <<floatArg, isrVars>>

\* the comparison of the hardware id left out
HwIdMismatchNever(id) == FALSE

\* lines 266-267: the register does not hold the hardware id of a CCS811
HwIdMismatch(id) == id # HW_ID

\* lines 266-273: the hardware id is read and compared, the handle is open
ctorHwId ==
    /\ pc = "hwId"
    /\ \E out \in BusOutcomes, id \in HwIdVals, resetOk \in BOOLEAN :
        IF out # "ok"
        THEN CtorUncaught(out, <<Ev("read.hwid", FALSE, <<>>)>>)
        ELSE IF HwIdMismatch(id)
        THEN CtorCleanup("ValueError", interruptPin, wakeupPin, open, resetOk,
                         <<Ev("read.hwid", TRUE, <<id>>)>>)
        ELSE /\ open' = TRUE /\ pc' = "status"
             /\ log' = Append(log, Ev("read.hwid", TRUE, <<id>>))
             /\ UNCHANGED <<interruptPin, wakeupPin, intAcquired, wakeAcquired,
                            ret>>
    /\ UNCHANGED <<args, cfgVars, stopped, measVars, errorCode, wakeLevel,
                   modeReg, earlyIsr, lastOp, retVal>>
    /\ UNCHANGED <<floatArg, isrVars>>


\* lines 276-284: the status must show no error and a valid application
ctorStatus ==
    /\ pc = "status"
    /\ \E out \in BusOutcomes, st \in StatusVals, eidOut \in BusOutcomes,
          eid \in ErrorIdVals, resetOk \in BOOLEAN :
        IF out # "ok"
        THEN /\ CtorUncaught(out, <<Ev("read.status", FALSE, <<>>)>>)
             /\ UNCHANGED errorCode
        ELSE IF Bit(st, ERROR_BIT) # 0
        THEN IF eidOut # "ok"
             THEN /\ CtorUncaught(eidOut, <<Ev("read.status", TRUE, <<st>>),
                                            Ev("read.errid", FALSE, <<>>)>>)
                  /\ UNCHANGED errorCode
             ELSE /\ errorCode' = eid
                  /\ CtorCleanup("ValueError", interruptPin, wakeupPin, open,
                                 resetOk, <<Ev("read.status", TRUE, <<st>>),
                                            Ev("read.errid", TRUE, <<eid>>)>>)
        ELSE IF Bit(st, APP_VALID_BIT) = 0
        THEN /\ CtorCleanup("ValueError", interruptPin, wakeupPin, open,
                            resetOk, <<Ev("read.status", TRUE, <<st>>)>>)
             /\ UNCHANGED errorCode
        ELSE /\ pc' = "appStart"
             /\ log' = Append(log, Ev("read.status", TRUE, <<st>>))
             /\ UNCHANGED <<interruptPin, wakeupPin, intAcquired, wakeAcquired,
                            open, ret, errorCode>>
    /\ UNCHANGED <<args, cfgVars, stopped, measVars, wakeLevel, modeReg,
                   earlyIsr, lastOp, retVal>>
    /\ UNCHANGED <<floatArg, isrVars>>

\* lines 287-289: the application is started
ctorAppStart ==
    /\ pc = "appStart"
    /\ \E out \in BusOutcomes :
        IF out # "ok"
        THEN CtorUncaught(out, <<Ev("write.appstart", FALSE, <<>>)>>)
        ELSE /\ pc' = "errCheck1"
             /\ log' = Append(log, Ev("write.appstart", TRUE, <<>>))
             /\ UNCHANGED <<interruptPin, wakeupPin, intAcquired, wakeAcquired,
                            open, ret>>
    /\ UNCHANGED <<args, cfgVars, stopped, measVars, errorCode, wakeLevel,
                   modeReg, earlyIsr, lastOp, retVal>>
    /\ UNCHANGED <<floatArg, isrVars>>

\* lines 290-293 and 298-301: errorCondition must be false
CtorErrCheck(next) ==
    \E stOut \in BusOutcomes, st \in StatusVals, eidOut \in BusOutcomes,
       eid \in ErrorIdVals, resetOk \in BOOLEAN :
        \E e \in {do_errorCondition(stOut, st, eidOut, eid)} :
        /\ errorCode' = e.errorCode
        /\ IF e.ret
           THEN CtorCleanup("ValueError", interruptPin, wakeupPin, open,
                            resetOk, e.events)
           ELSE /\ pc' = next
                /\ log' = log \o e.events
                /\ UNCHANGED <<interruptPin, wakeupPin, intAcquired,
                               wakeAcquired, open, ret>>

ctorErrCheck1 ==
    /\ pc = "errCheck1"
    /\ CtorErrCheck("setMode")
    /\ UNCHANGED <<args, cfgVars, stopped, measVars, wakeLevel, modeReg,
                   earlyIsr, lastOp, retVal>>
    /\ UNCHANGED <<floatArg, isrVars>>

\* line 296: the mode register is programmed
ctorSetMode ==
    /\ pc = "setMode"
    /\ \E out \in BusOutcomes :
        LET v == ModeRegValue(mode, measInterval) IN
        IF out # "ok"
        THEN /\ CtorUncaught(out, <<Ev("write.mode", FALSE, <<v>>)>>)
             /\ UNCHANGED modeReg
        ELSE /\ pc' = "errCheck2"
             /\ modeReg' = v
             /\ log' = Append(log, Ev("write.mode", TRUE, <<v>>))
             /\ UNCHANGED <<interruptPin, wakeupPin, intAcquired, wakeAcquired,
                            open, ret>>
    /\ UNCHANGED <<args, cfgVars, stopped, measVars, errorCode, wakeLevel,
                   earlyIsr, lastOp, retVal>>
    /\ UNCHANGED <<floatArg, isrVars>>

ctorErrCheck2 ==
    /\ pc = "errCheck2"
    /\ CtorErrCheck("release")
    /\ UNCHANGED <<args, cfgVars, stopped, measVars, wakeLevel, modeReg,
                   earlyIsr, lastOp, retVal>>
    /\ UNCHANGED <<floatArg, isrVars>>

\* lines 306-314: in interrupt mode one read releases the interrupt line,
\* then the handle runs
ctorRelease ==
    /\ pc = "release"
    /\ IF interruptPin # "None"
       THEN \E data \in BlockReads, env \in EnvIn :
            \E r \in {do_readData(data, env)} :
            /\ CO2' = r.meas.CO2 /\ tVOC' = r.meas.tVOC
            /\ staleCO2' = r.meas.staleCO2 /\ staletVOC' = r.meas.staletVOC
            /\ log' = log \o r.events
            /\ IF r.meas.exc # "none"
               THEN /\ ret' = r.meas.exc /\ pc' = "failed"
                    /\ UNCHANGED stopped
               ELSE /\ ret' = "ok" /\ pc' = "ready" /\ stopped' = FALSE
       ELSE /\ ret' = "ok" /\ pc' = "ready" /\ stopped' = FALSE
            /\ UNCHANGED <<measVars, log>>
    /\ UNCHANGED <<args, cfgVars, open, errorCode, pinVars, modeReg, earlyIsr,
                   lastOp, retVal>>
    /\ UNCHANGED <<floatArg, isrVars>>

\* ------------------------------------------------------------ methods

\* the effect of one readData call on the measurement fields
SetMeas(m) ==
    /\ CO2' = m.CO2 /\ tVOC' = m.tVOC
    /\ staleCO2' = m.staleCO2 /\ staletVOC' = m.staletVOC

\* close(), lines 388-414
close ==
    /\ pc = "ready"
    /\ \E resetOk \in BOOLEAN :
        \E c \in {do_close(interruptPin, wakeupPin, open, resetOk)} :
        /\ interruptPin' = c.interruptPin /\ wakeupPin' = c.wakeupPin
        /\ open' = c.open
        /\ intAcquired' = (intAcquired /\ ~c.closedInt)
        /\ wakeAcquired' = (wakeAcquired /\ ~c.closedWake)
        /\ lastOp' = "close" /\ log' = c.events /\ retVal' = None
        /\ ret' = IF c.exc # "none" THEN c.exc ELSE "ok"
    /\ UNCHANGED <<pc, args, cfgVars, stopped, measVars, errorCode, wakeLevel,
                   modeReg, earlyIsr>>
    /\ UNCHANGED <<floatArg, isrVars>>

\* readData() called by the program, lines 613-680
readData ==
    /\ pc = "ready"
    /\ \E data \in BlockReads, env \in EnvIn :
        \E r \in {do_readData(data, env)} :
        /\ SetMeas(r.meas)
        /\ lastOp' = "readData" /\ log' = r.events /\ retVal' = None
        /\ ret' = IF r.meas.exc # "none" THEN r.meas.exc ELSE "ok"
    /\ UNCHANGED <<pc, args, cfgVars, stopped, open, errorCode, pinVars,
                   modeReg, earlyIsr>>
    /\ UNCHANGED <<floatArg, isrVars>>

\* readData() run as the callback of the interrupt pin, on a constructed
\* handle; what it raises stays with the GPIO facility
isr ==
    /\ pc = "ready" /\ intAcquired
    /\ \E data \in BlockReads, env \in EnvIn :
        \E r \in {do_readData(data, env)} :
        /\ SetMeas(r.meas)
        /\ lastOp' = "isr" /\ log' = r.events /\ retVal' = None
        /\ ret' = IF r.meas.exc # "none" THEN r.meas.exc ELSE "ok"
    /\ UNCHANGED <<pc, args, cfgVars, stopped, open, errorCode, pinVars,
                   modeReg, earlyIsr>>
    /\ UNCHANGED <<floatArg, isrVars>>

\* the callback while the constructor runs, or after it failed with the
\* pin still acquired
isrEarly ==
    /\ pc # "ready" /\ intAcquired
    /\ \E data \in BlockReads, env \in EnvIn :
        \E r \in {do_readData(data, env)} :
        SetMeas(r.meas)
    /\ earlyIsr' = TRUE
    /\ UNCHANGED <<pc, args, cfgVars, stopped, open, errorCode, pinVars,
                   modeReg, opVars>>
    /\ UNCHANGED <<floatArg, isrVars>>


RECURSIVE StatusLoopShort(_, _, _)
\* the retry loop giving up one attempt early
StatusLoopShort(count, i, fails) ==
    IF count > 1
    THEN IF i <= fails
         THEN StatusLoopShort(count - 1, i + 1, fails)
         ELSE [count |-> count, reads |-> i, got |-> TRUE]
    ELSE [count |-> 0, reads |-> i - 1, got |-> FALSE]

RECURSIVE StatusLoop(_, _, _)
\* the retry loop of dataReady (lines 582-590) from attempt i on: the first
\* `fails` attempts raise OSError, the next one completes
StatusLoop(count, i, fails) ==
    IF count > 0
    THEN IF i <= fails
         THEN StatusLoop(count - 1, i + 1, fails)
         ELSE [count |-> count, reads |-> i, got |-> TRUE]
    ELSE [count |-> count, reads |-> i - 1, got |-> FALSE]

\* the status reads a loop of `reads` attempts issued; the last one handed
\* back st if the loop got a status
StatusEvents(reads, got, st) ==
    [k \in 1 .. reads |->
        IF got /\ k = reads THEN Ev("read.status", TRUE, <<st>>)
        ELSE Ev("read.status", FALSE, <<>>)]

\* dataReady without its test of the stopped flag
PollStoppedNever == FALSE

\* lines 579-580: a stopped handle is not polled
PollStopped == stopped

\* the status byte tested for its application valid bit
ReadyBitApp(st) == Bit(st, APP_VALID_BIT) # 0

\* line 593: the data ready bit of the status byte
ReadyBit(st) == Bit(st, DATA_READY_BIT) # 0

\* dataReady, lines 579-597: st is the status byte once a read completes
do_dataReady(fails, st, data, env) ==
    LET keep == [exc |-> "none", CO2 |-> CO2, tVOC |-> tVOC,
                 staleCO2 |-> staleCO2, staletVOC |-> staletVOC]
        l == StatusLoop(attempts, 1, fails)
        evs == StatusEvents(l.reads, l.got, st)
        ready == ReadyBit(st)
        r == do_readData(data, env)
    IN  IF PollStopped
        THEN [ret |-> "False", meas |-> keep, events |-> <<>>]
        ELSE IF l.count <= 0
        THEN [ret |-> "False", meas |-> keep, events |-> evs]
        ELSE IF ready
        THEN [ret |-> IF r.meas.exc # "none" THEN r.meas.exc ELSE "True",
              meas |-> r.meas, events |-> evs \o r.events]
        ELSE [ret |-> "False", meas |-> keep, events |-> evs]

\* the result register is read, and the providers are, only when a status
\* read completed with the data ready bit set
ResultWanted(fails, st) ==
    ~stopped /\ fails < attempts /\ ReadyBit(st)
ResultReads(fails, st) ==
    IF ResultWanted(fails, st) THEN BlockReads ELSE {NoBlock}
ResultEnv(fails, st) ==
    IF ResultWanted(fails, st) THEN EnvIn ELSE {NoEnv}

dataReady ==
    /\ pc = "ready"
    /\ \E fails \in 0 .. attempts, st \in StatusVals :
       \E data \in ResultReads(fails, st), env \in ResultEnv(fails, st) :
       \E d \in {do_dataReady(fails, st, data, env)} :
            /\ SetMeas(d.meas)
            /\ lastOp' = "dataReady" /\ log' = d.events /\ retVal' = None
            /\ ret' = d.ret
    /\ UNCHANGED <<pc, args, cfgVars, stopped, open, errorCode, pinVars,
                   modeReg, earlyIsr>>
    /\ UNCHANGED <<floatArg, isrVars>>

\* the CO2 property marking both measurements stale
getCO2Both ==
    /\ pc = "ready"
    /\ staleCO2' = TRUE /\ staletVOC' = TRUE
    /\ lastOp' = "CO2" /\ ret' = "ok" /\ retVal' = CO2 /\ log' = <<>>
    /\ UNCHANGED <<pc, args, cfgVars, stopped, tVOC, CO2, open,
                   errorCode, pinVars, modeReg, earlyIsr>>
    /\ UNCHANGED <<floatArg, isrVars>>

\* the CO2 property, lines 683-690
getCO2 ==
    /\ pc = "ready"
    /\ staleCO2' = TRUE
    /\ lastOp' = "CO2" /\ ret' = "ok" /\ retVal' = CO2 /\ log' = <<>>
    /\ UNCHANGED <<pc, args, cfgVars, stopped, tVOC, CO2, staletVOC, open,
                   errorCode, pinVars, modeReg, earlyIsr>>
    /\ UNCHANGED <<floatArg, isrVars>>

\* the tVOC property, lines 693-700
gettVOC ==
    /\ pc = "ready"
    /\ staletVOC' = TRUE
    /\ lastOp' = "tVOC" /\ ret' = "ok" /\ retVal' = tVOC /\ log' = <<>>
    /\ UNCHANGED <<pc, args, cfgVars, stopped, tVOC, CO2, staleCO2, open,
                   errorCode, pinVars, modeReg, earlyIsr>>
    /\ UNCHANGED <<floatArg, isrVars>>

\* the staleMeasurements property, lines 703-714
staleMeasurements ==
    /\ pc = "ready"
    /\ lastOp' = "staleMeasurements" /\ retVal' = None /\ log' = <<>>
    /\ ret' = IF staleCO2 \/ staletVOC THEN "True" ELSE "False"
    /\ UNCHANGED <<pc, args, cfgVars, stopped, measVars, open, errorCode,
                   pinVars, modeReg, earlyIsr>>
    /\ UNCHANGED <<floatArg, isrVars>>

\* the error id register is read only after a status read that completed
\* with the error bit set
ErrIdOutcomes(stOut, st) ==
    IF stOut = "ok" /\ Bit(st, ERROR_BIT) # 0 THEN BusOutcomes ELSE {"ok"}
ErrIdReads(stOut, st, eidOut) ==
    IF stOut = "ok" /\ Bit(st, ERROR_BIT) # 0 /\ eidOut = "ok"
    THEN ErrorIdAll
    ELSE {0}

\* the errorCondition property, lines 500-524
errorCondition ==
    /\ pc = "ready"
    /\ \E stOut \in BusOutcomes, st \in StatusVals :
       \E eidOut \in ErrIdOutcomes(stOut, st) :
       \E eid \in ErrIdReads(stOut, st, eidOut) :
        \E e \in {do_errorCondition(stOut, st, eidOut, eid)} :
        /\ errorCode' = e.errorCode
        /\ lastOp' = "errorCondition" /\ log' = e.events /\ retVal' = None
        /\ ret' = IF e.ret THEN "True" ELSE "False"
    /\ UNCHANGED <<pc, args, cfgVars, stopped, measVars, open, pinVars,
                   modeReg, earlyIsr>>
    /\ UNCHANGED <<floatArg, isrVars>>

\* the errorText property, lines 469-497
errorText ==
    /\ pc = "ready"
    /\ lastOp' = "errorText" /\ ret' = "ok" /\ log' = <<>>
    /\ retVal' = do_errorText(errorCode)
    /\ UNCHANGED <<pc, args, cfgVars, stopped, measVars, open, errorCode,
                   pinVars, modeReg, earlyIsr>>
    /\ UNCHANGED <<floatArg, isrVars>>

\* sleep() leaving the mode register at the configured mode
SleepModeRegKeep == ModeRegValue(mode, measInterval)

\* line 535: the mode register value sleep() writes
SleepModeReg == ModeRegValue(POLL_MODE, MEAS_INT_IDLE)

\* sleep(), lines 527-542
sleep ==
    /\ pc = "ready"
    /\ \E out \in BusOutcomes :
        LET v == SleepModeReg
            ev == Ev("write.mode", out = "ok", <<v>>)
        IN  /\ lastOp' = "sleep" /\ retVal' = None
            /\ IF out # "ok"
               THEN /\ ret' = out /\ log' = <<ev>>
                    /\ UNCHANGED <<modeReg, wakeLevel, stopped>>
               ELSE /\ modeReg' = v
                    /\ IF wakeupPin # "pin"
                       THEN /\ ret' = "ValueError" /\ log' = <<ev>>
                            /\ UNCHANGED <<wakeLevel, stopped>>
                       ELSE /\ wakeLevel' = "high" /\ stopped' = TRUE
                            /\ ret' = "ok"
                            /\ log' = <<ev, Ev("wakePin.high", TRUE, <<>>)>>
    /\ UNCHANGED <<pc, args, cfgVars, measVars, open, errorCode, interruptPin,
                   wakeupPin, intAcquired, wakeAcquired, earlyIsr>>
    /\ UNCHANGED <<floatArg, isrVars>>

\* wake() programming poll mode whatever the configured mode
WakeModeRegPoll == ModeRegValue(POLL_MODE, measInterval)

\* line 559: the mode register value wake() writes
WakeModeReg == ModeRegValue(mode, measInterval)

\* wake(), lines 545-561, called where the program is at `at`
WakeAt(at) ==
    /\ pc = at
    /\ \E out \in BusOutcomes :
        LET v == WakeModeReg
            ev == Ev("write.mode", out = "ok", <<v>>)
        IN  /\ lastOp' = "wake" /\ retVal' = None
            /\ IF wakeupPin # "pin"
               THEN /\ ret' = "ValueError" /\ log' = <<>>
                    /\ UNCHANGED <<modeReg, wakeLevel, stopped>>
               ELSE /\ wakeLevel' = "low"
                    /\ log' = <<Ev("wakePin.low", TRUE, <<>>), ev>>
                    /\ IF out # "ok"
                       THEN /\ ret' = out
                            /\ UNCHANGED <<modeReg, stopped>>
                       ELSE /\ modeReg' = v /\ stopped' = FALSE
                            /\ ret' = "ok"
    /\ UNCHANGED <<pc, args, cfgVars, measVars, open, errorCode, interruptPin,
                   wakeupPin, intAcquired, wakeAcquired, earlyIsr>>
    /\ UNCHANGED <<floatArg, isrVars>>

\* wake() called by the program
wake == WakeAt("ready")

\* wake() called from another context while the program is in waitforData
wakeOther == WakeAt("waiting")

\* the loop of waitforData ending after its first poll
LoopEndsAlways(r) == TRUE

\* line 608: the loop ends when dataReady is true, or raises
LoopEnds(r) == r # "False"

\* waitforData() is called, lines 600-610
waitforData ==
    /\ pc = "ready"
    /\ pc' = "waiting"
    /\ lastOp' = "waitforData" /\ ret' = "none" /\ retVal' = None
    /\ log' = <<>>
    /\ UNCHANGED <<args, cfgVars, stopped, measVars, open, errorCode, pinVars,
                   modeReg, earlyIsr, floatArg, isrVars>>

\* one turn of the loop of waitforData: dataReady is evaluated, and the
\* method returns, goes on or is left by what dataReady raises
waitforDataPoll ==
    /\ pc = "waiting"
    /\ \E fails \in 0 .. attempts, st \in StatusVals :
       \E data \in ResultReads(fails, st), env \in ResultEnv(fails, st) :
       \E d \in {do_dataReady(fails, st, data, env)} :
            /\ SetMeas(d.meas)
            /\ log' = d.events
            /\ IF LoopEnds(d.ret)
               THEN /\ pc' = "ready"
                    /\ ret' = IF d.ret = "True" THEN "ok" ELSE d.ret
               ELSE /\ pc' = "waiting" /\ ret' = "none"
    /\ lastOp' = "waitforData" /\ retVal' = None
    /\ UNCHANGED <<args, cfgVars, stopped, open, errorCode, pinVars,
                   modeReg, earlyIsr, floatArg, isrVars>>

\* a turn of the loop in which a status read completed with the data ready
\* bit set
readyReported ==
    /\ waitforDataPoll
    /\ \E k \in 1 .. Len(log') :
          /\ log'[k].op = "read.status" /\ log'[k].ok
          /\ ReadyBit(log'[k].val[1])

\* a call of __toCCSfloat with the argument floatArg
toCCSfloatCall ==
    /\ lastOp = "none"
    /\ lastOp' = "toCCSfloat" /\ ret' = "ok"
    /\ retVal' = toCCSfloat(floatArg)
    /\ UNCHANGED <<pc, args, cfgVars, stopped, measVars, open, errorCode,
                   pinVars, modeReg, earlyIsr, log, isrVars, floatArg>>

\* ---------------------------------------- the callback, by statement

\* readData run as the callback of the interrupt pin in its own context,
\* one statement of lines 631-678 at a time, while the program calls
\* methods of the handle. isrPc is the line the callback is at, isrData its
\* local variable data. The GPIO facility runs one callback at a time, so a
\* callback begins only when none is running; what a callback raises stays
\* with the facility, and the program does not see what a callback did
\* (lastOp, ret, retVal and log are the program's).

\* where the program can be while a callback runs
IsrRunsAt == {"ready", "formatCO2", "formattVOC"}

\* what no statement of the callback assigns
IsrKeeps ==
    UNCHANGED <<pc, args, cfgVars, stopped, open, errorCode, pinVars,
                modeReg, earlyIsr, opVars, floatArg>>

\* lines 631-633: the block read; an OSError ends the callback
isrRead ==
    /\ pc \in IsrRunsAt /\ intAcquired /\ isrPc = "idle"
    /\ \E data \in BlockReads :
          IF data = NoBlock
          THEN UNCHANGED isrVars
          ELSE isrPc' = "l635" /\ isrData' = data
    /\ IsrKeeps /\ UNCHANGED measVars

\* lines 635-639: on a stopped handle the callback returns
isrStoppedTest ==
    /\ isrPc = "l635"
    /\ IF IsDrain
       THEN isrPc' = "idle" /\ isrData' = <<>>
       ELSE isrPc' = "l643" /\ UNCHANGED isrData
    /\ IsrKeeps /\ UNCHANGED measVars

\* line 643: the CO2 field is assigned the value of the first two bytes,
\* whatever it is; a block of less than two bytes raises IndexError
isrStoreCO2 ==
    /\ isrPc = "l643"
    /\ IF Len(isrData) < 2
       THEN isrPc' = "l656" /\ UNCHANGED CO2
       ELSE isrPc' = "l644" /\ CO2' = isrData[1] * 256 + isrData[2]
    /\ IsrKeeps /\ UNCHANGED <<tVOC, staleCO2, staletVOC, isrData>>

\* line 644: the test of the value just stored
isrTestCO2 ==
    /\ isrPc = "l644"
    /\ isrPc' = IF InvalidCO2(CO2) THEN "l646" ELSE "l651"
    /\ IsrKeeps /\ UNCHANGED <<measVars, isrData>>

\* four assignments that mark the measurements absent, at the lines
\* `labels`, followed by the statement at `next`
MarkAbsent(labels, next) ==
    \E k \in 1 .. 4 :
        /\ isrPc = labels[k]
        /\ isrPc' = IF k < 4 THEN labels[k + 1] ELSE next
        /\ CO2' = IF k = 1 THEN None ELSE CO2
        /\ tVOC' = IF k = 2 THEN None ELSE tVOC
        /\ staleCO2' = IF k = 3 THEN TRUE ELSE staleCO2
        /\ staletVOC' = IF k = 4 THEN TRUE ELSE staletVOC

\* lines 646-649: the branch of an invalid measurement
isrInvalid ==
    /\ MarkAbsent(<<"l646", "l647", "l648", "l649">>, "l661")
    /\ IsrKeeps /\ UNCHANGED isrData

\* lines 651-653: the branch of a valid measurement; a block of less than
\* four bytes raises IndexError at line 651
isrValid ==
    /\ \/ /\ isrPc = "l651"
          /\ IF Len(isrData) < 4
             THEN isrPc' = "l656" /\ UNCHANGED tVOC
             ELSE isrPc' = "l652" /\ tVOC' = isrData[3] * 256 + isrData[4]
          /\ UNCHANGED <<CO2, staleCO2, staletVOC>>
       \/ /\ isrPc = "l652" /\ isrPc' = "l653"
          /\ staleCO2' = FALSE
          /\ UNCHANGED <<CO2, tVOC, staletVOC>>
       \/ /\ isrPc = "l653" /\ isrPc' = "l661"
          /\ staletVOC' = FALSE
          /\ UNCHANGED <<CO2, tVOC, staleCO2>>
    /\ IsrKeeps /\ UNCHANGED isrData

\* lines 656-659: the handler of IndexError
isrHandler ==
    /\ MarkAbsent(<<"l656", "l657", "l658", "l659">>, "l661")
    /\ IsrKeeps /\ UNCHANGED isrData

\* lines 661-680: the environmental data are written when a provider is
\* configured, and the callback returns; the write assigns no field
isrReturn ==
    /\ isrPc = "l661"
    /\ isrPc' = "idle" /\ isrData' = <<>>
    /\ IsrKeeps /\ UNCHANGED measVars

\* the statements of the callback
IsrSteps ==
    \/ isrRead \/ isrStoppedTest \/ isrStoreCO2 \/ isrTestCO2
    \/ isrInvalid \/ isrValid \/ isrHandler \/ isrReturn

\* ---------------------------------------- a program in interrupt mode

\* the loop body of the example programs that run in interrupt mode:
\*     if not aqSensor.staleMeasurements:
\*         print( '...'.format( aqSensor.CO2, aqSensor.tVOC ) )
\* retVal collects the arguments of format() as they are evaluated

\* the test of staleMeasurements
reportTest ==
    /\ pc = "ready"
    /\ pc' = IF staleCO2 \/ staletVOC THEN "ready" ELSE "formatCO2"
    /\ lastOp' = "staleMeasurements" /\ retVal' = None /\ log' = <<>>
    /\ ret' = IF staleCO2 \/ staletVOC THEN "True" ELSE "False"
    /\ UNCHANGED <<args, cfgVars, stopped, measVars, open, errorCode,
                   pinVars, modeReg, earlyIsr>>
    /\ UNCHANGED <<floatArg, isrVars>>

\* the first argument of format(): the CO2 property
reportCO2 ==
    /\ pc = "formatCO2" /\ pc' = "formattVOC"
    /\ staleCO2' = TRUE
    /\ lastOp' = "format" /\ ret' = "ok" /\ retVal' = <<CO2>> /\ log' = <<>>
    /\ UNCHANGED <<args, cfgVars, stopped, tVOC, CO2, staletVOC, open,
                   errorCode, pinVars, modeReg, earlyIsr>>
    /\ UNCHANGED <<floatArg, isrVars>>

\* the second argument of format(): the tVOC property; then the line is
\* printed
reportTVOC ==
    /\ pc = "formattVOC" /\ pc' = "ready"
    /\ staletVOC' = TRUE
    /\ lastOp' = "print" /\ ret' = "ok" /\ log' = <<>>
    /\ retVal' = retVal \o <<tVOC>>
    /\ UNCHANGED <<args, cfgVars, stopped, tVOC, CO2, staleCO2, open,
                   errorCode, pinVars, modeReg, earlyIsr>>
    /\ UNCHANGED <<floatArg, isrVars>>

\* ------------------------------------------------------------ behaviours

\* the steps of the constructor after its argument check
CtorSteps ==
    \/ ctorInterruptPin \/ ctorWakeupPin \/ ctorReset
    \/ ctorHwId \/ ctorStatus \/ ctorAppStart \/ ctorErrCheck1
    \/ ctorSetMode \/ ctorErrCheck2 \/ ctorRelease

\* construction with any arguments, interrupts included, and close()
Next ==
    \/ ctorBegin \/ CtorSteps \/ isrEarly \/ close

Spec == Init /\ [][Next]_vars

\* a handle constructed with the default address and interval, read by the
\* program and by the interrupt callback, sent to sleep and woken up
NextRead ==
    \/ ctorBeginDefault \/ CtorSteps
    \/ readData \/ isr \/ getCO2 \/ gettVOC \/ staleMeasurements
    \/ sleep \/ wake

SpecRead == Init /\ [][NextRead]_vars

\* a handle constructed with the default address and interval, polled, sent
\* to sleep and woken up
NextPoll ==
    \/ ctorBeginPoll \/ CtorSteps
    \/ dataReady \/ sleep \/ wake

SpecPoll == Init /\ [][NextPoll]_vars

\* a handle constructed with any interval and any pins, sent to sleep, woken
\* up and closed
NextPower ==
    \/ ctorBeginPins \/ CtorSteps
    \/ sleep \/ wake \/ close

SpecPower == Init /\ [][NextPower]_vars

\* a handle constructed with the defaults whose error condition and error
\* text are inspected
NextError ==
    \/ ctorBeginPlain \/ CtorSteps
    \/ errorCondition \/ errorText

SpecError == Init /\ [][NextError]_vars

\* a handle constructed with the defaults and used from one thread of
\* control through all of its methods
NextUse ==
    \/ ctorBeginPlain \/ CtorSteps
    \/ readData \/ isr \/ dataReady \/ getCO2 \/ gettVOC
    \/ staleMeasurements \/ sleep \/ wake \/ close

SpecUse == Init /\ [][NextUse]_vars

\* a handle constructed with an interrupt pin whose callback runs, one
\* statement at a time, while the program reads the values, tests and
\* prints them as the example programs do, sends the device to sleep and
\* wakes it up
NextRace ==
    \/ ctorBeginIrq \/ CtorSteps \/ IsrSteps
    \/ getCO2 \/ gettVOC \/ reportTest \/ reportCO2 \/ reportTVOC
    \/ sleep \/ wake

SpecRace == Init /\ [][NextRace]_vars

\* a handle constructed with the defaults whose program waits for data,
\* sends the device to sleep, and has it woken up from another context. The
\* loop of waitforData keeps turning, and the device reports data ready
\* again and again while the handle runs.
NextWait ==
    \/ ctorBeginWait \/ CtorSteps
    \/ sleep \/ waitforData \/ waitforDataPoll \/ wakeOther

SpecWait == Init /\ [][NextWait]_vars /\ WF_vars(readyReported)

\* the object before its construction, and a number to convert
InitCodec ==
    /\ pc = "new"
    /\ args = [i2cAddress |-> None, measInterval |-> None,
               interruptPin |-> FALSE, wakeupPin |-> FALSE,
               tempDevice |-> FALSE, humidDevice |-> FALSE]
    /\ i2cAddress = None /\ measInterval = None /\ mode = None
    /\ tempDevice = FALSE /\ humidDevice = FALSE /\ attempts = None
    /\ stopped = TRUE /\ tVOC = None /\ CO2 = None
    /\ staleCO2 = TRUE /\ staletVOC = TRUE
    /\ open = FALSE /\ errorCode = 0
    /\ interruptPin = "unset" /\ wakeupPin = "unset"
    /\ intAcquired = FALSE /\ wakeAcquired = FALSE /\ wakeLevel = "low"
    /\ modeReg = None
    /\ earlyIsr = FALSE
    /\ lastOp = "none" /\ ret = "none" /\ retVal = None /\ log = <<>>
    /\ isrPc = "idle" /\ isrData = <<>>
    /\ \/ \E k \in FloatSteps : floatArg \in FloatArgsAt(k)
       \/ floatArg \in FloatArgsOutside

\* the conversion of one number
NextCodec == toCCSfloatCall

SpecCodec == InitCodec /\ [][NextCodec]_vars


\* ------------------------------------------------------------ properties

\* the constructor raised after its argument check: every later step that
\* fails has logged the transaction that failed
FailedAfterCheck == pc = "failed" /\ log # <<>>

\* no bus transaction was issued and no pin was acquired
NothingTouched ==
    /\ log = <<>> /\ ~intAcquired /\ ~wakeAcquired
    /\ interruptPin = "unset" /\ wakeupPin = "unset" /\ ~earlyIsr

\* C1: a constructor call with an address outside {0x5A, 0x5B} fails with
\* ValueError, and it has issued no bus transaction and acquired no pin
C1_BadAddressRejected ==
    (pc # "new" /\ args.i2cAddress \notin {90, 91}) =>
        (pc = "failed" /\ ret = "ValueError" /\ NothingTouched)

C1_Witness ==
    /\ pc = "failed" /\ args.i2cAddress = 92 /\ args.measInterval = 1
    /\ args.interruptPin /\ args.wakeupPin

\* C2: a constructor call with an interval outside {1,2,3,4}, the idle
\* interval 0 included, fails with ValueError before any bus transaction or
\* pin acquisition; with a legal address every interval in {1,2,3,4} passes
\* the check, and the constructor goes on to declare the fields
C2_BadIntervalRejected ==
    pc # "new" =>
        /\ args.measInterval \notin {1, 2, 3, 4} =>
               (pc = "failed" /\ ret = "ValueError" /\ NothingTouched)
        /\ (args.measInterval \in {1, 2, 3, 4}
            /\ args.i2cAddress \in {90, 91}) =>
               (measInterval = args.measInterval /\ attempts = ATTEMPTS)

C2_Witness ==
    /\ pc = "failed" /\ args.measInterval = 0 /\ args.i2cAddress = 91
    /\ args.interruptPin /\ args.wakeupPin

\* C3 (as claimed): when the constructor fails after its argument check,
\* every pin it acquired is closed and the handle is not open
C3_FailureCleansUp ==
    FailedAfterCheck => (~intAcquired /\ ~wakeAcquired /\ ~open)

\* a pin acquisition of the constructor failed
PinOpenFailed ==
    \E k \in 1 .. Len(log) :
        log[k].op \in {"intPin.open", "wakePin.open"} /\ ~log[k].ok

\* C4 (as claimed): when the acquisition of a pin fails in the constructor,
\* close() completes and the caller gets the error of the acquisition
C4_PinFailureKeepsError ==
    (pc = "failed" /\ PinOpenFailed) => ret = "GPIOError"

\* both pins are released and the handle is not open
Released ==
    /\ interruptPin = "None" /\ wakeupPin = "None" /\ ~open
    /\ ~intAcquired /\ ~wakeAcquired

\* C5: a close() right after a close() does not raise, touches no pin and
\* writes nothing to the bus, and leaves the handle released as it was
C5_CloseIdempotent ==
    [][(pc = "ready" /\ lastOp = "close" /\ lastOp' = "close") =>
          /\ ret' = "ok" /\ log' = <<>>
          /\ Released /\ Released'
          /\ UNCHANGED <<stopped, measVars, errorCode, modeReg, wakeLevel>>
      ]_vars

C5_Witness ==
    /\ pc = "ready" /\ lastOp = "close" /\ log = <<>> /\ ret = "ok"
    /\ args.interruptPin /\ args.wakeupPin /\ Released

\* the last operation was a readData, of the program or of the callback,
\* whose block read handed back a block
BlockWasRead ==
    /\ pc = "ready" /\ lastOp \in {"readData", "isr"}
    /\ log # <<>> /\ log[1].op = "read.block" /\ log[1].ok

Absent == CO2 = None /\ tVOC = None /\ staleCO2 /\ staletVOC

\* C6: on a running handle a read of the 4 byte block b stores
\* CO2 = 256*b[1]+b[2] and tVOC = 256*b[3]+b[4] and marks both fresh when
\* CO2 >= 400, and else stores no value and marks both stale
C6_ReadStores ==
    (BlockWasRead /\ ~stopped /\ Len(log[1].val) = 4) =>
        LET b == log[1].val
            c == 256 * b[1] + b[2]
        IN  IF c >= 400
            THEN /\ CO2 = c /\ tVOC = 256 * b[3] + b[4]
                 /\ ~staleCO2 /\ ~staletVOC
            ELSE Absent

C6_Witness ==
    /\ BlockWasRead /\ ~stopped /\ lastOp = "readData"
    /\ log[1].val = <<1, 144, 0, 100>>
    /\ CO2 = 400 /\ tVOC = 100 /\ ~staleCO2 /\ ~staletVOC

ShortBlockRead == BlockWasRead /\ ~stopped /\ Len(log[1].val) < 4

\* C7 (as claimed): on a running handle a block of fewer than 4 bytes never
\* makes readData raise, and leaves both values absent and stale
C7_ShortBlockNeverRaises ==
    ShortBlockRead => (ret = "ok" /\ Absent)

\* C7 (amended): on a running handle a block of fewer than 4 bytes leaves
\* both values absent and stale and raises no IndexError; readData raises
\* only when the write of the environmental data that follows fails
C7_ShortBlockSwallowed ==
    ShortBlockRead =>
        /\ Absent
        /\ \/ ret = "ok"
           \/ /\ ret = "OSError" /\ Len(log) = 2
              /\ log[2].op = "write.env" /\ ~log[2].ok

C7_Witness ==
    /\ ShortBlockRead /\ ret = "ok" /\ Absent
    /\ log[1].val = <<144, 1, 1>>

\* C8: on a stopped handle readData issues the block read and nothing else,
\* and leaves CO2, tVOC and both staleness flags as they were
C8_StoppedReadIsDrain ==
    [][(pc = "ready" /\ stopped /\ lastOp' \in {"readData", "isr"}) =>
          /\ UNCHANGED <<measVars, stopped>>
          /\ Len(log') = 1 /\ log'[1].op = "read.block"
      ]_vars

C8_Witness ==
    /\ BlockWasRead /\ stopped /\ tempDevice
    /\ log[1].val = <<1, 143, 255, 255>>
    /\ CO2 = 400 /\ tVOC = 100 /\ ~staleCO2 /\ staletVOC

\* C9: on a stopped handle dataReady returns False, issues no bus
\* transaction and changes no field
C9_StoppedPollDoesNothing ==
    [][(pc = "ready" /\ stopped /\ lastOp' = "dataReady") =>
          /\ ret' = "False" /\ log' = <<>>
          /\ UNCHANGED <<args, cfgVars, stopped, measVars, open, errorCode,
                         pinVars, modeReg>>
      ]_vars

C9_Witness ==
    /\ pc = "ready" /\ stopped /\ lastOp = "dataReady" /\ ret = "False"
    /\ log = <<>> /\ CO2 = 400

\* the number of status reads of the last operation
StatusReads == Cardinality({k \in 1 .. Len(log) : log[k].op = "read.status"})

\* C10: a dataReady on a running handle issues between 1 and ATTEMPTS status
\* reads, each but the first after a failed one; when all ATTEMPTS fail it
\* returns False and reads no block; a read that completes, the last of the
\* budget included, decides: the block read follows if and only if its
\* data ready bit is set
C10_RetryBudget ==
    (pc = "ready" /\ lastOp = "dataReady" /\ ~stopped) =>
        LET n == StatusReads IN
        /\ n >= 1 /\ n <= ATTEMPTS
        /\ \A k \in 1 .. n : log[k].op = "read.status"
        /\ \A k \in 1 .. n - 1 : ~log[k].ok
        /\ ~log[n].ok => (n = ATTEMPTS /\ ret = "False" /\ Len(log) = n)
        /\ log[n].ok =>
              IF (log[n].val[1] \div 8) % 2 = 1
              THEN Len(log) > n /\ log[n + 1].op = "read.block"
              ELSE ret = "False" /\ Len(log) = n

C10_Witness ==
    /\ pc = "ready" /\ lastOp = "dataReady" /\ ~stopped
    /\ StatusReads = ATTEMPTS /\ log[ATTEMPTS].ok /\ ret = "True"

\* the last operation was a dataReady on a running handle
Polled == pc = "ready" /\ lastOp = "dataReady" /\ ~stopped

\* the last status read of the poll completed with the data ready bit set
PollSawReady ==
    LET n == StatusReads IN
    n >= 1 /\ log[n].ok /\ (log[n].val[1] \div 8) % 2 = 1

\* the number of block reads of the last operation
BlockReadCount ==
    Cardinality({k \in 1 .. Len(log) : log[k].op = "read.block"})

\* C11 (as claimed): a dataReady on a running handle returns True exactly
\* when a status read completed with the data ready bit set, and then it
\* has called readData once; with the bit clear it returns False and reads
\* no block
C11_ReadyIffBitSet ==
    Polled =>
        /\ (ret = "True") <=> PollSawReady
        /\ PollSawReady => BlockReadCount = 1
        /\ ~PollSawReady => (ret = "False" /\ BlockReadCount = 0)

\* C11 (amended): a dataReady on a running handle calls readData once
\* exactly when a status read completed with the data ready bit set, as the
\* last thing it does; it then returns True if readData returns and raises
\* the OSError of readData otherwise; else it returns False and reads no
\* block
C11_ReadyIffBitSetAndRead ==
    Polled =>
        LET n == StatusReads IN
        /\ PollSawReady =>
              /\ BlockReadCount = 1 /\ log[n + 1].op = "read.block"
              /\ ret \in {"True", "OSError"}
              /\ (ret = "True") <=> (\A k \in n + 1 .. Len(log) : log[k].ok)
        /\ ~PollSawReady => (ret = "False" /\ BlockReadCount = 0)
        /\ (ret = "True") => PollSawReady

C11_Witness ==
    /\ Polled /\ PollSawReady /\ ret = "True" /\ BlockReadCount = 1
    /\ StatusReads = 2 /\ tempDevice

\* C12 (as claimed): whenever dataReady returns True, CO2 and tVOC are
\* stored, CO2 is at least 400 ppm, and neither is marked stale
C12_TrueMeansData ==
    (pc = "ready" /\ lastOp = "dataReady" /\ ret = "True") =>
        (CO2 # None /\ CO2 >= 400 /\ tVOC # None /\ ~staleCO2 /\ ~staletVOC)

\* C13: reading CO2 returns the stored value, marks CO2 stale and leaves the
\* staleness flag of tVOC and both stored values as they were, after a
\* valid read in particular; reading tVOC does the same with the roles
\* exchanged; staleMeasurements is True exactly when one of the two flags
\* is set, and changes nothing
C13_StalenessPerValue ==
    [][pc = "ready" =>
          /\ lastOp' = "CO2" =>
                /\ staleCO2' /\ retVal' = CO2
                /\ UNCHANGED <<staletVOC, CO2, tVOC>>
          /\ lastOp' = "tVOC" =>
                /\ staletVOC' /\ retVal' = tVOC
                /\ UNCHANGED <<staleCO2, CO2, tVOC>>
          /\ lastOp' = "staleMeasurements" =>
                /\ ret' = (IF staleCO2 \/ staletVOC THEN "True" ELSE "False")
                /\ UNCHANGED measVars
      ]_vars

C13_Witness ==
    /\ pc = "ready" /\ lastOp = "CO2" /\ retVal = 400
    /\ staleCO2 /\ ~staletVOC /\ CO2 = 400 /\ tVOC = 100

\* C14 (as claimed): on a handle constructed without a wakeup pin, sleep()
\* and wake() each raise the ValueError 'wakeup Pin not set', whether the
\* handle runs, is stopped or is closed, and whatever the bus does
C14_NoWakeupPinConfigError ==
    (pc = "ready" /\ lastOp \in {"sleep", "wake"} /\ ~args.wakeupPin) =>
        ret = "ValueError"

\* what a successful sleep() has done: the mode value 0x00 written, then
\* the wakeup pin driven high; the handle is stopped and the pin high
SleepEffect ==
    /\ log' = <<[op |-> "write.mode", ok |-> TRUE, val |-> <<0>>],
                [op |-> "wakePin.high", ok |-> TRUE, val |-> <<>>]>>
    /\ modeReg' = 0 /\ stopped' /\ wakeLevel' = "high"

\* C15 (as claimed): a sleep() that returns has written the mode value 0x00
\* while the wakeup pin was still low, then driven the pin high, then
\* marked the handle stopped
C15_SleepWritesWhileLow ==
    [][(pc = "ready" /\ lastOp' = "sleep" /\ ret' = "ok") =>
          (wakeLevel = "low" /\ SleepEffect)
      ]_vars

\* C15 (amended): a sleep() that returns has written the mode value 0x00
\* before it drove the wakeup pin high and marked the handle stopped; the
\* pin is low during the write when it was low before the call, and high
\* during the write when the device was already asleep
C15_SleepWritesBeforeHigh ==
    [][(pc = "ready" /\ lastOp' = "sleep" /\ ret' = "ok") =>
          /\ SleepEffect
          /\ wakeupPin = "pin" /\ wakeAcquired
          /\ wakeLevel = "high" => stopped
      ]_vars

C15_Witness ==
    /\ pc = "ready" /\ lastOp = "sleep" /\ ret = "ok" /\ Len(log) = 2
    /\ stopped /\ wakeLevel = "high" /\ modeReg = 0
    /\ args.interruptPin /\ args.measInterval = 4

\* the mode value of the configuration: the interval in bits 4 to 6, the
\* interrupt enable in bit 3
ConfiguredMode ==
    16 * args.measInterval + (IF args.interruptPin THEN 8 ELSE 0)

\* C16: a wake() that returns has driven the wakeup pin low, then written
\* the mode value the constructor programmed, and the handle runs; so a
\* sleep() followed by a wake() gives back the mode register and the
\* running state of the constructed handle
C16_WakeRestoresMode ==
    [][/\ (pc # "ready" /\ pc' = "ready") =>
              (modeReg' = ConfiguredMode /\ ~stopped')
       /\ (pc = "ready" /\ lastOp' = "wake" /\ ret' = "ok") =>
              /\ log' = <<[op |-> "wakePin.low", ok |-> TRUE, val |-> <<>>],
                          [op |-> "write.mode", ok |-> TRUE,
                           val |-> <<ConfiguredMode>>]>>
              /\ modeReg' = ConfiguredMode /\ ~stopped'
              /\ wakeLevel' = "low"
      ]_vars

C16_Witness ==
    /\ pc = "ready" /\ lastOp = "wake" /\ ret = "ok" /\ Len(log) = 2
    /\ ~stopped /\ wakeLevel = "low" /\ modeReg = 72
    /\ args.interruptPin /\ args.measInterval = 4

\* the last operation was an errorCondition
Inspected == pc = "ready" /\ lastOp = "errorCondition"

\* a register read of the last operation raised
SomeReadFailed == \E k \in 1 .. Len(log) : ~log[k].ok

\* C17: errorCondition never raises: it returns True or False whatever the
\* bus does, and when the status read or the error id read raises it
\* returns True with the stored error code 0x40
C17_ErrorConditionNeverRaises ==
    Inspected =>
        /\ ret \in {"True", "False"}
        /\ SomeReadFailed => (ret = "True" /\ errorCode = 64)

C17_Witness ==
    /\ Inspected /\ Len(log) = 2 /\ log[1].ok /\ ~log[2].ok
    /\ ret = "True" /\ errorCode = 64 /\ args.interruptPin

\* the last operation was an errorCondition that read a status byte with
\* the error bit set and then the error id 0
ZeroIdRead ==
    /\ Inspected /\ Len(log) = 2
    /\ log[1].ok /\ log[1].val[1] % 2 = 1
    /\ log[2].op = "read.errid" /\ log[2].ok /\ log[2].val = <<0>>

\* C18: an errorCondition that finds the error bit set and reads the error
\* id 0 returns True and stores the error code 0x80, and the errorText that
\* follows is the cause 'Unspecified error', not the empty text
C18_ZeroIdIsUnspecified ==
    [][/\ ZeroIdRead' => (ret' = "True" /\ errorCode' = 128)
       /\ (ZeroIdRead /\ lastOp' = "errorText") =>
              retVal' = <<"Unspecified error">>
      ]_vars

C18_Witness ==
    ZeroIdRead /\ ret = "True" /\ errorCode = 128 /\ log[1].val = <<1>>

\* C19: errorCondition returns False exactly when its status read completed
\* with the error bit clear; its result is True exactly when the error code
\* it leaves is not 0, whatever the code was before; the errorText that
\* follows is empty exactly after the result False
C19_FalseIffNoError ==
    [][pc = "ready" =>
          /\ lastOp' = "errorCondition" =>
                /\ (ret' = "False") <=>
                       (log'[1].ok /\ log'[1].val[1] % 2 = 0)
                /\ (ret' = "True") <=> (errorCode' # 0)
          /\ (lastOp = "errorCondition" /\ lastOp' = "errorText") =>
                ((retVal' = <<>>) <=> (ret = "False"))
      ]_vars

C19_Witness ==
    /\ Inspected /\ ret = "False" /\ errorCode = 0
    /\ log = <<[op |-> "read.status", ok |-> TRUE, val |-> <<24>>]>>

\* the bits set in the error code c, and the k-th of them in ascending order
SetBits(c) == {b \in 0 .. 7 : (c \div (2 ^ b)) % 2 = 1}
KthBit(c, k) ==
    CHOOSE b \in SetBits(c) : Cardinality({x \in SetBits(c) : x < b}) = k - 1

\* C20: for an error code c in 0..254 errorText is the cause strings of the
\* set bits of c in ascending bit order, one per bit, with the separator
\* ', ' between two causes and nothing after the last one (the empty text
\* for 0); for 0xFF it is the one message 'All error code bits set'
C20_ErrorTextPerBit ==
    (pc = "ready" /\ lastOp = "errorText") =>
        LET c == errorCode
            t == retVal
            n == Cardinality(SetBits(c))
        IN  IF c = 255 THEN t = <<"All error code bits set">>
            ELSE /\ Len(t) = (IF n = 0 THEN 0 ELSE 3 * n - 2)
                 /\ \A k \in 1 .. n :
                        t[3 * k - 2] = CauseTexts[KthBit(c, k) + 1]
                 /\ \A k \in 1 .. n - 1 : t[3 * k - 1] = "," /\ t[3 * k] = " "

C20_Witness ==
    /\ pc = "ready" /\ lastOp = "errorText" /\ errorCode = 5
    /\ retVal = <<"Write request to wrong register received", ",", " ",
                  "Invalid MeasMode received">>

\* a call of __toCCSfloat has returned its two bytes
Converted == lastOp = "toCCSfloat"

\* 512 times the number the two bytes stand for: the high byte without its
\* lowest bit is the integer part, that bit and the low byte are the 9 bit
\* binary fraction
Decode512(b) == (b[1] \div 2) * 512 + (b[1] % 2) * 256 + b[2]

\* C21: for every x = k/512 with 0 <= x <= 127.999, the number decoded from
\* the two bytes of the conversion of x differs from x by at most 1/512
C21_RoundTrip ==
    (Converted /\ floatArg % 1000 = 0 /\ floatArg >= 0
     /\ floatArg <= 127999 * 512) =>
        LET d == Decode512(retVal) * 1000 - floatArg IN
        d <= 1000 /\ -d <= 1000

C21_Witness ==
    Converted /\ floatArg = 25856 * 1000 /\ retVal = <<101, 0>>

\* C22: the conversion clips its argument: every x < 0 gives the bytes of
\* 0, (0x00, 0x00), every x > 127.999 the bytes of 127.999, (0xFF, 0xFF),
\* and both bytes are in 0..255 for every x
C22_Clamps ==
    Converted =>
        /\ retVal[1] \in 0 .. 255 /\ retVal[2] \in 0 .. 255
        /\ floatArg <= 0 => retVal = <<0, 0>>
        /\ floatArg >= 127999 * 512 => retVal = <<255, 255>>

C22_Witness ==
    Converted /\ floatArg = 200 * 512000 /\ retVal = <<255, 255>>

\* C28: for every x the 16 bit value high*256 + low of the conversion is
\* floor(clamp(x, 0, 127.999) * 512); the high byte is twice the integer
\* part plus the highest of the 9 fraction bits, the low byte is the other
\* 8 fraction bits
C28_FloorOf512ths ==
    Converted =>
        LET c == IF floatArg < 0 THEN 0
                 ELSE IF floatArg > 127999 * 512 THEN 127999 * 512
                 ELSE floatArg
            f == c \div 1000
            frac9 == f % 512
        IN  /\ retVal[1] * 256 + retVal[2] = f
            /\ retVal[1] = 2 * (f \div 512) + frac9 \div 256
            /\ retVal[2] = frac9 % 256

C28_Witness ==
    Converted /\ floatArg = 12345 * 1000 + 999 /\ retVal = <<48, 57>>

\* C23: after every operation of a handle used from one thread of control
\* (readData, dataReady, the getters, sleep, wake, close), tVOC is stored
\* only if CO2 is stored and at least 400, and CO2 only if tVOC is
C23_BothOrNeither ==
    /\ tVOC # None => (CO2 # None /\ CO2 >= 400)
    /\ CO2 # None => tVOC # None

C23_Witness ==
    /\ pc = "ready" /\ lastOp = "dataReady" /\ ret = "True"
    /\ Len(log) = 2 /\ log[2].val = <<144, 1, 1>>
    /\ CO2 = None /\ tVOC = None /\ staleCO2 /\ staletVOC

\* the constructor has returned and no method was called since
Constructed == pc = "ready" /\ lastOp = "init"

\* C24: while the constructor runs no read stores a measurement, neither
\* the read that releases the interrupt line nor a callback that fires
\* early; when the constructor has returned the handle is open and runs,
\* and CO2 and tVOC are absent and marked stale
C24_ConstructedFresh ==
    /\ (pc # "ready" /\ lastOp = "init") => Absent
    /\ Constructed => (open /\ ~stopped /\ ret = "ok" /\ Absent)

C24_Witness ==
    /\ Constructed /\ earlyIsr /\ args.interruptPin /\ args.tempDevice
    /\ log[Len(log)].op = "read.block"
    /\ log[Len(log)].val = <<1, 144, 0, 100>>
    /\ open /\ ~stopped /\ Absent

\* in the last turn of the loop dataReady returned True: a status read
\* completed with the data ready bit set and readData returned
TurnWasTrue ==
    /\ PollSawReady /\ BlockReadCount = 1
    /\ \A k \in 1 .. Len(log) : log[k].op # "read.status" => log[k].ok

\* waitforData is left only by a turn in which dataReady returned True or
\* raised, and on a stopped handle only wake() changes anything
WaitSafety ==
    /\ (pc = "waiting" /\ pc' = "ready" /\ ret' # "OSError") =>
           (ret' = "ok" /\ TurnWasTrue')
    /\ (pc = "waiting" /\ stopped /\ lastOp' # "wake") =>
           (pc' = "waiting" /\ stopped')

\* C25 (as claimed): waitforData returns only after a dataReady that
\* returned True; on a running handle it returns eventually when the device
\* keeps reporting data ready; on a stopped handle it does not return
\* unless another context calls wake()
C25_WaitReturns ==
    /\ [][WaitSafety]_vars
    /\ (pc = "waiting" /\ ~stopped) ~>
           (pc = "ready" /\ lastOp = "waitforData" /\ ret = "ok")

\* C25 (amended): waitforData returns only after a dataReady that returned
\* True; on a running handle it eventually returns or raises the OSError
\* of the readData that dataReady called, when the device keeps reporting
\* data ready; on a stopped handle it neither returns nor raises unless
\* another context calls wake()
C25_WaitReturnsOrRaises ==
    /\ [][WaitSafety]_vars
    /\ [][(pc = "waiting" /\ pc' = "ready" /\ ret' = "OSError") =>
             (PollSawReady' /\ BlockReadCount' = 1 /\ SomeReadFailed')]_vars
    /\ (pc = "waiting" /\ ~stopped) ~>
           (pc = "ready" /\ lastOp = "waitforData"
            /\ ret \in {"ok", "OSError"})

C25_Witness ==
    /\ pc = "ready" /\ lastOp = "waitforData" /\ ret = "ok"
    /\ TurnWasTrue /\ StatusReads = 3 /\ CO2 = 400 /\ ~staleCO2
    /\ args.wakeupPin

\* the log is that of the constructor
InCtor == pc # "new" /\ lastOp = "init"

\* the bus operations of the constructor that depend on a check, in the
\* order of the code
CheckedOrder ==
    <<"read.hwid", "read.status", "write.appstart", "read.status",
      "write.mode", "read.status">>
IsChecked(e) ==
    e.op \in {"read.hwid", "read.status", "write.appstart", "write.mode"}
CheckedOps == SelectSeq(log, IsChecked)

\* the k-th of these operations completed and lets the constructor go on
StepPassed(k) ==
    LET e == CheckedOps[k] IN
    /\ e.ok
    /\ k = 1 => e.val = <<129>>
    /\ k = 2 => (e.val[1] % 2 = 0 /\ (e.val[1] \div 16) % 2 = 1)
    /\ k \in {4, 6} => e.val[1] % 2 = 0

\* the positions of the reset writes and of the first checked operation
ResetAt == {j \in 1 .. Len(log) : log[j].op = "write.reset"}
CheckedAt == {j \in 1 .. Len(log) : IsChecked(log[j])}

\* C26: the constructor issues its bus operations in the order reset write,
\* hardware id read, status read, app start write, status read, mode
\* write, status read, each only after the ones before it passed their
\* checks: the hardware id read returned 0x81 before any status read, app
\* start write or mode write, and before the handle is open; the app start
\* write follows a status with the error bit clear and the app valid bit
\* set; a status with the error bit set is followed by the read of the
\* error id and ends the construction, the app valid bit clear as well or
\* not
C26_ConstructionOrder ==
    InCtor =>
        /\ Len(CheckedOps) <= 6
        /\ \A k \in 1 .. Len(CheckedOps) : CheckedOps[k].op = CheckedOrder[k]
        /\ \A k \in 1 .. Len(CheckedOps) - 1 : StepPassed(k)
        /\ CheckedAt # {} =>
              \E j \in ResetAt : \A i \in CheckedAt : j < i
        /\ \A j \in ResetAt :
              (\E i \in CheckedAt : i < j) => (j = Len(log) /\ pc = "failed")
        /\ open => (CheckedOps # <<>> /\ StepPassed(1))
        /\ \A j \in 1 .. Len(log) :
              /\ log[j].op = "read.errid" =>
                    /\ j > 1 /\ log[j - 1].op = "read.status"
                    /\ log[j - 1].ok /\ log[j - 1].val[1] % 2 = 1
              /\ (log[j].op = "read.status" /\ log[j].ok
                  /\ log[j].val[1] % 2 = 1) =>
                    /\ j < Len(log) /\ log[j + 1].op = "read.errid"
                    /\ pc = "failed"
                    /\ log[j + 1].ok => ret = "ValueError"

C26_Witness ==
    /\ Constructed /\ Len(CheckedOps) = 6 /\ StepPassed(6)
    /\ args.interruptPin /\ args.wakeupPin /\ args.measInterval = 3

\* the hardware id read of the constructor returned 0x81
HwIdMatched ==
    \E k \in 1 .. Len(log) :
        log[k].op = "read.hwid" /\ log[k].ok /\ log[k].val = <<129>>

\* the last thing the failed constructor did is the reset write of close()
CleanupReset ==
    /\ Len(log) >= 2 /\ log[Len(log)].op = "write.reset"
    /\ log[Len(log)].val = <<17, 229, 114, 138>>

EnvWrites == {k \in 1 .. Len(log) : log[k].op = "write.env"}

\* the bytes of the two provider readings the model offers: 298.15 K is
\* 50.0 degrees with the offset, (0x64, 0x00), and 50 % is the same bytes;
\* 300 K is 51.85, (0x67, 0xB3), and 150 % is clipped to (0xFF, 0xFF)
EnvBytes ==
    {[temp |-> <<100, 0>>, humid |-> <<100, 0>>],
     [temp |-> <<103, 179>>, humid |-> <<255, 255>>]}

\* C29: a readData on a running handle that got its block writes the 4
\* bytes temperature high, low, humidity high, low to the environmental
\* data register once, as its last bus operation, exactly when a
\* temperature or a humidity provider is configured, for an invalid sample
\* as well, with (0x64, 0x00) for each provider that is missing; a read on
\* a stopped handle and a handle without providers write nothing there
C29_EnvWrite ==
    BlockWasRead =>
        IF ~stopped /\ (tempDevice \/ humidDevice)
        THEN /\ EnvWrites = {2} /\ Len(log) = 2
             /\ \E b \in EnvBytes :
                    log[2].val =
                        (IF tempDevice THEN b.temp ELSE <<100, 0>>)
                        \o (IF humidDevice THEN b.humid ELSE <<100, 0>>)
        ELSE EnvWrites = {}

C29_Witness ==
    /\ BlockWasRead /\ ~stopped /\ tempDevice /\ ~humidDevice
    /\ log[1].val = <<1, 143, 255, 255>> /\ Absent
    /\ Len(log) = 2 /\ log[2].op = "write.env" /\ log[2].ok
    /\ log[2].val = <<103, 179, 100, 0>>

\* the mode register writes of the last operation
ModeWrites == {k \in 1 .. Len(log) : log[k].op = "write.mode"}

\* C30: every value written to the mode register is interval*16 + 8*enable
\* with the interval in 0..4, so bits 0 to 2 and bit 7 are zero; bit 3 is
\* set exactly when the handle has an interrupt pin configured and the
\* write is not the one of sleep(), which writes 0x00
C30_ModeByte ==
    \A k \in ModeWrites :
        LET v == log[k].val[1] IN
        /\ \E i \in 0 .. 4, en \in 0 .. 1 : v = i * 16 + 8 * en
        /\ v % 8 = 0 /\ v < 128
        /\ ((v \div 8) % 2 = 1) <=> (args.interruptPin /\ lastOp # "sleep")
        /\ lastOp = "sleep" => v = 0
        /\ lastOp # "sleep" =>
              v = 16 * args.measInterval
                  + (IF args.interruptPin THEN 8 ELSE 0)

C30_Witness ==
    /\ pc = "ready" /\ lastOp = "wake" /\ ModeWrites = {2}
    /\ log[2].ok /\ log[2].val = <<40>> /\ modeReg = 40
    /\ args.measInterval = 2 /\ args.interruptPin

\* the last operation was a dataReady on a running handle in interrupt
\* mode, i.e. one constructed with an interrupt pin
PolledInInterruptMode ==
    Polled /\ args.interruptPin /\ mode = INTERRUPT_MODE

\* C31: on a handle configured with an interrupt pin dataReady never calls
\* readData: a poll in interrupt mode issues no block read, so that
\* readData is never run by both the callback and a poller of one handle
C31_PollNeverReadsInInterruptMode ==
    PolledInInterruptMode => BlockReadCount = 0

\* the block read of the last operation raised
BlockReadFailed ==
    \E k \in 1 .. Len(log) : log[k].op = "read.block" /\ ~log[k].ok

\* C32: the retry budget of dataReady covers the status read only. When the
\* status read has completed with the data ready bit set and the block read
\* of the result then fails on the bus, the read is not tried again and no
\* further status read follows; the OSError leaves dataReady, and CO2, tVOC
\* and their staleness flags keep the values they had before the call
C32_BlockReadNotRetried ==
    [][(pc = "ready" /\ lastOp' = "dataReady" /\ BlockReadFailed') =>
          /\ BlockReadCount' = 1
          /\ Len(log') = StatusReads' + 1
          /\ StatusReads' <= ATTEMPTS
          /\ log'[StatusReads'].ok
          /\ log'[Len(log')].op = "read.block"
          /\ ret' = "OSError"
          /\ UNCHANGED measVars]_vars

C32_Witness ==
    /\ pc = "ready" /\ lastOp = "dataReady" /\ ret = "OSError"
    /\ Len(log) = 3 /\ StatusReads = 2 /\ ~log[1].ok /\ log[2].ok
    /\ log[3].op = "read.block" /\ ~log[3].ok
    /\ CO2 = 400 /\ tVOC = 100 /\ ~staleCO2 /\ ~staletVOC

\* C33: from the return of a sleep() that succeeded until the next wake(),
\* the handle is stopped: every dataReady returns False, and no readData,
\* called by the program or run as the callback, changes CO2 or tVOC or
\* marks a measurement fresh; the staleness flags only go from fresh to
\* stale, which is what reading a value does
C33_StoppedKeepsValues ==
    [][/\ (pc = "ready" /\ lastOp' = "sleep" /\ ret' = "ok") => stopped'
       /\ (pc = "ready" /\ stopped /\ lastOp' # "wake") =>
             /\ stopped'
             /\ CO2' = CO2 /\ tVOC' = tVOC
             /\ staleCO2 => staleCO2'
             /\ staletVOC => staletVOC'
             /\ lastOp' = "dataReady" => (ret' = "False" /\ log' = <<>>)
             /\ lastOp' \in {"CO2", "tVOC"} =>
                   retVal' = (IF lastOp' = "CO2" THEN CO2 ELSE tVOC)]_vars

C33_Witness ==
    /\ BlockWasRead /\ lastOp = "isr" /\ stopped /\ wakeLevel = "high"
    /\ log[1].val = <<144, 1, 1, 143>>
    /\ CO2 = 400 /\ tVOC = 100 /\ ~staleCO2 /\ staletVOC

\* close() has returned, and the operation that followed it was a dataReady
PolledAfterClose == pc = "ready" /\ lastOp = "dataReady" /\ ~open

\* C34: once close() has returned, a dataReady on the handle issues no bus
\* transaction and leaves the measurement values as they are, and the
\* callback of the interrupt pin runs no more
C34_ClosedHandleIsQuiet ==
    /\ PolledAfterClose => (log = <<>> /\ ret = "False")
    /\ (pc = "ready" /\ ~open) => ~intAcquired
    /\ (pc = "ready" /\ lastOp = "isr") => open

\* C35: a sleep() or wake() that is rejected because the handle has no
\* wakeup pin has no effect besides the ValueError: it writes nothing to the
\* mode register and leaves the stopped flag as it was
C35_RejectedPowerOpNoEffect ==
    [][(pc = "ready" /\ lastOp' \in {"sleep", "wake"}
        /\ ret' = "ValueError") =>
          /\ ModeWrites' = {} /\ log' = <<>>
          /\ UNCHANGED <<stopped, modeReg, wakeLevel>>]_vars

\* C38: on a handle constructed with a wakeup pin, from the end of the
\* construction until close(), the handle is stopped exactly when the
\* wakeup pin is driven high, between any two operations, a sleep() or
\* wake() that failed with a bus error included
C38_StoppedIffPinHigh ==
    (pc = "ready" /\ args.wakeupPin /\ wakeupPin = "pin") =>
        (stopped <=> wakeLevel = "high")

\* C39: with one thread of control, whenever staleMeasurements is False
\* both CO2 and tVOC hold a value: a measurement that is absent (None) is
\* always marked stale, from the construction on
C39_FreshMeansPresent ==
    /\ CO2 = None => staleCO2
    /\ tVOC = None => staletVOC
    /\ (pc = "ready" /\ lastOp = "staleMeasurements" /\ ret = "False") =>
          (CO2 # None /\ tVOC # None /\ CO2 >= MIN_CO2)

C39_Witness ==
    /\ pc = "ready" /\ lastOp = "staleMeasurements" /\ ret = "False"
    /\ CO2 = 36865 /\ tVOC = 399 /\ ~staleCO2 /\ ~staletVOC

\* C36: while the callback runs statement by statement between the calls
\* of the program, the CO2 property never hands the program a value below
\* 400 ppm: what it returns is None or a valid concentration
C36_AccessorNeverBelowFloor ==
    /\ lastOp = "CO2" => (retVal = None \/ retVal >= MIN_CO2)
    /\ lastOp \in {"format", "print"} =>
          (retVal[1] = None \/ retVal[1] >= MIN_CO2)

\* the CO2 and tVOC values of the samples the device sends
SampleValues ==
    {<<b[1] * 256 + b[2], b[3] * 256 + b[4]>> : b \in Samples}

\* C37: a program that finds staleMeasurements False and then reads CO2 and
\* then tVOC holds two values that are present and belong to one sample,
\* even when the callback runs between these three steps
C37_ReportedPairIsOneSample ==
    lastOp = "print" =>
        /\ retVal \in SampleValues
        /\ retVal[1] # None /\ retVal[2] # None
        /\ ~InvalidCO2(retVal[1])

====
